---- MODULE Spec2Model ----
(***************************************************************************)
(* Model of the charge-control engine (charge_github.py) and of the        *)
(* rate-limited, cache-backed data access layer (chargepoint_dal/dal.py).  *)
(***************************************************************************)
EXTENDS Integers, Sequences, FiniteSets, TLC

VARIABLES
    \* ---- charge_github.charge() ----
    env,          \* which of CP_USERNAME, CP_PASSWORD, CP_STATION_ID are set
    cpc,          \* position of charge(): idle, auth, chargers, check, wait, start, repoll, done
    status,       \* the most recently fetched charger status
    attempt,      \* loop variable of the scheduled-charge wait (0 before the loop)
    retry,        \* loop variable of the start loop
    result,       \* return value of charge(): "none", "True", "False"
    starts,       \* number of start commands issued
    polls,        \* number of status queries issued
    startLog,     \* outcome of each start command issued, in order
    apiError,     \* an API call raised something other than the start timeout
    initialState, \* charging_status of the initial status check ("NONE" before it)
    transitionPoll,    \* first wait poll showing plugged in and not CHARGING (0: none)
    startsAtTransition, \* number of start commands issued when that poll was made
    apiCalls,     \* number of calls made to the ChargePoint client
    \* ---- charge_github.wait_until_charge_window() and main() ----
    gateNow,      \* the local "now" of line 19, as a time of day in ticks
    wait_seconds, \* the time slept at line 32, in ticks (0: no sleep)
    proceed,      \* return value of wait_until_charge_window(): "none", "True", "False"
    mpc,          \* position of main(): none, gate, gated, charge, exited
    exitCode,     \* the argument of sys.exit (-1 before it)
    \* ---- chargepoint_dal.dal.RateLimiter ----
    rate,         \* self.rate: the capacity, in requests
    allowance,    \* self.allowance, in units of 1/TicksPerToken of a request
    last_check,   \* self.last_check, in ticks of the monotonic clock
    mono,         \* time.monotonic(), in ticks
    lockHolder,   \* the thread inside "with self.lock" (0: the lock is free)
    tpc,          \* position of each thread: idle, waiting, locked, sleeping
    wakeAt,       \* the instant the sleep of line 34 ends
    firstCall,    \* the instant of the first acquire() call (-1 before it)
    calls,        \* number of acquire() calls made
    returned,     \* number of acquire() calls that returned
    noSleepReturned, \* number of acquire() calls that returned without sleeping
    sleptAt,      \* the instant the last acquire() to pass line 32 returned at, if
                  \* it slept (-1 if it did not, or none has)
    \* ---- chargepoint_dal.dal.ChargePointDAL.get_sessions ----
    target,       \* <<year, month>>: the month the calls of the run ask for
    monthFile,    \* content of data/cache/sessions/<year>/<month>.json
    cache,        \* self.cache[cache_key]
    utc,          \* datetime.datetime.utcnow(), in instants
    gpc,          \* position of get_sessions: idle, request, acquire, process, save, done, raised
    now,          \* the local "now" of line 258
    sessions,     \* the local list "sessions" of line 282
    page_offset,  \* payload["charging_activity_monthly"]["page_offset"]
    last_offset,  \* the local "last_offset"
    i,            \* loop variable of line 298
    max_batches,  \* argument of the call
    gresult,      \* the list the last completed call returned
    path,         \* how the current call is served: none, cache, fetch
    exitReason,   \* why the fetch loop ended
    gets,         \* number of get_sessions calls made
    given,        \* whether the year and the month were given to the call (line 246)
    requests,     \* number of network requests issued
    callRequests, \* number of network requests issued by the current call
    idBatches,    \* per session id: batches of the current call holding a record of the
                  \* target month with that id
    next_offset,  \* the local "next_offset" of lines 317-327
    tooNew,       \* the test of line 354 holds of the last batch analysed
    tooOld,       \* the last batch analysed has timestamps the stop test parses,
                  \* all of them before start_of_target
    \* ---- chargepoint_dal.dal.ChargePointDAL.get_session_activity ----
    sessionFiles, \* per session id: content of data/session_cache/**/<id>.json
    activityCache, \* self.cache[cache_key] for each session_activity key
    legacyMonthKey, \* self.cache holds a list under a sessions_ key naming
                  \* p_<year>_<month> of the target month
    apc,          \* per thread: position of get_session_activity: idle, file,
                  \* lock_check, check, post, acquire, lock_store, store,
                  \* done, raised
    cache_key,    \* per thread: <<session_id, include_samples>> of the call
    areturn,      \* per thread: what the call returned ("none" before it)
    fetched,      \* per key: the data the last network fetch for it gave
    fetches,      \* per key: number of network requests issued for it
    saves,        \* number of _save_cache() runs that wrote the flat cache file
    dalLock,      \* the thread that holds self.lock of the DAL (0: none)
    actCalls      \* number of get_session_activity calls made

chargeVars == <<env, cpc, status, attempt, retry, result, starts, polls,
                startLog, apiError, initialState, transitionPoll, startsAtTransition,
                apiCalls>>

mainVars == <<gateNow, wait_seconds, proceed, mpc, exitCode>>

limiterVars == <<rate, allowance, last_check, mono, lockHolder, tpc, wakeAt,
                 firstCall, calls, returned, noSleepReturned, sleptAt>>

dalVars == <<target, monthFile, cache, utc, gpc, now, sessions, page_offset,
             last_offset, i, max_batches, gresult, path, exitReason, gets, given,
             requests, callRequests, idBatches, next_offset, tooNew, tooOld>>

actVars == <<sessionFiles, activityCache, legacyMonthKey, apc, cache_key,
             areturn, fetched, fetches, saves, dalLock, actCalls>>

vars == <<env, cpc, status, attempt, retry, result, starts, polls,
          startLog, apiError, initialState, transitionPoll, startsAtTransition,
          apiCalls,
          gateNow, wait_seconds, proceed, mpc, exitCode,
          rate, allowance, last_check, mono, lockHolder, tpc, wakeAt,
          firstCall, calls, returned, noSleepReturned, sleptAt,
          target, monthFile, cache, utc, gpc, now, sessions, page_offset,
          last_offset, i, max_batches, gresult, path, exitReason, gets, given,
          requests, callRequests, idBatches, next_offset, tooNew, tooOld,
          sessionFiles, activityCache, legacyMonthKey, apc, cache_key,
          areturn, fetched, fetches, saves, dalLock, actCalls>>

----------------------------------------------------------------------------
(* charge_github.py                                                        *)

\* range(1, 16): number of scheduled-charge wait polls
WaitAttempts == 15
\* a start loop of four attempts
MaxRetries_Four == 3 + 1

\* range(1, 4): number of start attempts
MaxRetries == 3

ChargingStates == {"CHARGING", "NOT_CHARGING", "FULLY_CHARGED"}

\* the snapshots get_home_charger_status can return
Statuses == [connected : BOOLEAN, plugged_in : BOOLEAN, charging_status : ChargingStates]

NoStatus == [connected |-> FALSE, plugged_in |-> FALSE, charging_status |-> "NONE"]

\* what an API call can do: return, or raise an exception of a class with a message.
\* class "comm" is ChargePointCommunicationException, "other" any other Exception;
\* msg "allotted" is a message containing "failed to start in time allotted".
Errors == [class : {"comm", "other"}, msg : {"allotted", "else"}]

\* line 113, under the except clause of line 112
IsAllottedTimeout(e) == e.class = "comm" /\ e.msg = "allotted"

\* line 42: all([username, password, station_id])
EnvComplete == env.username /\ env.password /\ env.station_id

Return(b) ==
    /\ cpc' = "done"
    /\ result' = b

\* an outer handler that reported success
Raise_ReturnsTrue ==
    /\ apiError' = TRUE
    /\ Return("True")

\* lines 136-143: both handlers of the outer try return False
Raise ==
    /\ apiError' = TRUE
    /\ Return("False")

\* lines 38-45
ChargeEnter ==
    /\ cpc = "idle"
    /\ IF EnvComplete
         THEN cpc' = "auth" /\ result' = result
         ELSE Return("False")
    /\ UNCHANGED <<env, status, attempt, retry, starts, polls, startLog, apiError,
                   initialState, transitionPoll, startsAtTransition, apiCalls>>

\* lines 48-51
Authenticate ==
    /\ cpc = "auth"
    /\ apiCalls' = apiCalls + 1
    /\ \/ cpc' = "chargers" /\ UNCHANGED <<result, apiError>>
       \/ \E e \in Errors : Raise
    /\ UNCHANGED <<env, status, attempt, retry, starts, polls, startLog,
                   initialState, transitionPoll, startsAtTransition>>

\* lines 53-62
GetHomeChargers ==
    /\ cpc = "chargers"
    /\ apiCalls' = apiCalls + 1
    /\ \/ \E found \in BOOLEAN :
            /\ IF found THEN cpc' = "check" /\ result' = result
                        ELSE Return("False")
            /\ UNCHANGED apiError
       \/ \E e \in Errors : Raise
    /\ UNCHANGED <<env, status, attempt, retry, starts, polls, startLog,
                   initialState, transitionPoll, startsAtTransition>>

\* an initial check that tests plugged_in before connected
CheckStatus_PluggedFirst ==
    /\ cpc = "check"
    /\ apiCalls' = apiCalls + 1
    /\ polls' = polls + 1
    /\ \/ \E s \in Statuses :
            /\ status' = s
            /\ initialState' = s.charging_status
            /\ UNCHANGED apiError
            /\ IF ~s.plugged_in THEN Return("True")
               ELSE IF ~s.connected THEN Return("False")
               ELSE IF s.charging_status = "CHARGING"
                 THEN cpc' = "wait" /\ result' = result
                 ELSE cpc' = "start" /\ result' = result
       \/ \E e \in Errors : Raise /\ UNCHANGED <<status, initialState>>
    /\ UNCHANGED <<env, attempt, retry, starts, startLog, transitionPoll, startsAtTransition>>

\* lines 64-80 and, when the state is not CHARGING, the fall through to line 106
CheckStatus ==
    /\ cpc = "check"
    /\ apiCalls' = apiCalls + 1
    /\ polls' = polls + 1
    /\ \/ \E s \in Statuses :
            /\ status' = s
            /\ initialState' = s.charging_status
            /\ UNCHANGED apiError
            /\ IF ~s.connected THEN Return("False")
               ELSE IF ~s.plugged_in THEN Return("True")
               ELSE IF s.charging_status = "CHARGING"
                 THEN cpc' = "wait" /\ result' = result
                 ELSE cpc' = "start" /\ result' = result
       \/ \E e \in Errors : Raise /\ UNCHANGED <<status, initialState>>
    /\ UNCHANGED <<env, attempt, retry, starts, startLog, transitionPoll, startsAtTransition>>

\* a wait loop without the else clause of lines 97-101: when the polls are
\* exhausted it falls through to the start loop
WaitPoll_NoElse ==
    /\ cpc = "wait"
    /\ apiCalls' = apiCalls + 1
    /\ attempt < WaitAttempts
    /\ attempt' = attempt + 1
    /\ polls' = polls + 1
    /\ \/ \E s \in Statuses :
            /\ status' = s
            /\ UNCHANGED apiError
            /\ IF ~s.plugged_in
                 THEN Return("True") /\ UNCHANGED <<transitionPoll, startsAtTransition>>
               ELSE IF s.charging_status # "CHARGING"
                 THEN /\ cpc' = "start" /\ result' = result
                      /\ transitionPoll' = attempt + 1
                      /\ startsAtTransition' = starts
               ELSE /\ UNCHANGED <<transitionPoll, startsAtTransition, result>>
                    /\ IF attempt + 1 = WaitAttempts
                         THEN cpc' = "start"
                         ELSE cpc' = "wait"
       \/ \E e \in Errors :
            Raise /\ UNCHANGED <<status, transitionPoll, startsAtTransition>>
    /\ UNCHANGED <<env, retry, starts, startLog, initialState>>

\* a wait loop without the plugged_in test of lines 89-91
WaitPoll_NoUnplugTest ==
    /\ cpc = "wait"
    /\ apiCalls' = apiCalls + 1
    /\ attempt < WaitAttempts
    /\ attempt' = attempt + 1
    /\ polls' = polls + 1
    /\ \/ \E s \in Statuses :
            /\ status' = s
            /\ UNCHANGED apiError
            /\ IF s.charging_status # "CHARGING"
                 THEN /\ cpc' = "start" /\ result' = result
                      /\ transitionPoll' = attempt + 1
                      /\ startsAtTransition' = starts
               ELSE /\ UNCHANGED <<transitionPoll, startsAtTransition>>
                    /\ IF attempt + 1 = WaitAttempts
                         THEN Return("True")
                         ELSE cpc' = "wait" /\ result' = result
       \/ \E e \in Errors :
            Raise /\ UNCHANGED <<status, transitionPoll, startsAtTransition>>
    /\ UNCHANGED <<env, retry, starts, startLog, initialState>>

\* lines 82-101: one iteration of the wait loop, with the for-else of lines 97-101
WaitPoll ==
    /\ cpc = "wait"
    /\ apiCalls' = apiCalls + 1
    /\ attempt < WaitAttempts
    /\ attempt' = attempt + 1
    /\ polls' = polls + 1
    /\ \/ \E s \in Statuses :
            /\ status' = s
            /\ UNCHANGED apiError
            /\ IF ~s.plugged_in
                 THEN Return("True") /\ UNCHANGED <<transitionPoll, startsAtTransition>>
               ELSE IF s.charging_status # "CHARGING"
                 THEN /\ cpc' = "start" /\ result' = result
                      /\ transitionPoll' = attempt + 1
                      /\ startsAtTransition' = starts
               ELSE /\ UNCHANGED <<transitionPoll, startsAtTransition>>
                    /\ IF attempt + 1 = WaitAttempts
                         THEN Return("True")
                         ELSE cpc' = "wait" /\ result' = result
       \/ \E e \in Errors :
            Raise /\ UNCHANGED <<status, transitionPoll, startsAtTransition>>
    /\ UNCHANGED <<env, retry, starts, startLog, initialState>>

\* a start loop that treats every exception of the start command as the timeout
StartCharging_RetryFatal ==
    /\ cpc = "start"
    /\ apiCalls' = apiCalls + 1
    /\ retry <= MaxRetries
    /\ starts' = starts + 1
    /\ \/ /\ startLog' = Append(startLog, "ok")
          /\ Return("True")
          /\ UNCHANGED apiError
       \/ \E e \in Errors :
            /\ startLog' = Append(startLog, IF IsAllottedTimeout(e) THEN "timeout" ELSE "fatal")
            /\ cpc' = "repoll"
            /\ UNCHANGED <<result, apiError>>
    /\ UNCHANGED <<env, status, attempt, retry, polls, initialState,
                   transitionPoll, startsAtTransition>>

\* a start loop that does not return at line 110 but re-polls as after a timeout
StartCharging_NoReturn ==
    /\ cpc = "start"
    /\ apiCalls' = apiCalls + 1
    /\ retry <= MaxRetries
    /\ starts' = starts + 1
    /\ \/ /\ startLog' = Append(startLog, "ok")
          /\ cpc' = "repoll"
          /\ UNCHANGED <<result, apiError>>
       \/ \E e \in Errors :
            IF IsAllottedTimeout(e)
              THEN /\ startLog' = Append(startLog, "timeout")
                   /\ cpc' = "repoll"
                   /\ UNCHANGED <<result, apiError>>
              ELSE /\ startLog' = Append(startLog, "fatal")
                   /\ Raise
    /\ UNCHANGED <<env, status, attempt, retry, polls, initialState,
                   transitionPoll, startsAtTransition>>

\* lines 106-113 and 133-134: one start command
StartCharging ==
    /\ cpc = "start"
    /\ apiCalls' = apiCalls + 1
    /\ retry <= MaxRetries
    /\ starts' = starts + 1
    /\ \/ /\ startLog' = Append(startLog, "ok")
          /\ Return("True")
          /\ UNCHANGED apiError
       \/ \E e \in Errors :
            IF IsAllottedTimeout(e)
              THEN /\ startLog' = Append(startLog, "timeout")
                   /\ cpc' = "repoll"
                   /\ UNCHANGED <<result, apiError>>
              ELSE /\ startLog' = Append(startLog, "fatal")
                   /\ Raise
    /\ UNCHANGED <<env, status, attempt, retry, polls, initialState,
                   transitionPoll, startsAtTransition>>

\* a re-poll that tests for FULLY_CHARGED where line 123 tests for CHARGING
RePoll_ChargingRetries ==
    /\ cpc = "repoll"
    /\ apiCalls' = apiCalls + 1
    /\ polls' = polls + 1
    /\ \/ \E s \in Statuses :
            /\ status' = s
            /\ UNCHANGED apiError
            /\ IF ~s.plugged_in THEN Return("True") /\ UNCHANGED retry
               ELSE IF s.charging_status = "FULLY_CHARGED" THEN Return("True") /\ UNCHANGED retry
               ELSE IF retry < MaxRetries
                 THEN cpc' = "start" /\ retry' = retry + 1 /\ result' = result
                 ELSE Return("False") /\ UNCHANGED retry
       \/ \E e \in Errors : Raise /\ UNCHANGED <<status, retry>>
    /\ UNCHANGED <<env, attempt, starts, startLog, initialState,
                   transitionPoll, startsAtTransition>>

\* a re-poll without the CHARGING test of lines 123-125
RePoll_NoChargingTest ==
    /\ cpc = "repoll"
    /\ apiCalls' = apiCalls + 1
    /\ polls' = polls + 1
    /\ \/ \E s \in Statuses :
            /\ status' = s
            /\ UNCHANGED apiError
            /\ IF ~s.plugged_in THEN Return("True") /\ UNCHANGED retry
               ELSE IF retry < MaxRetries
                 THEN cpc' = "start" /\ retry' = retry + 1 /\ result' = result
                 ELSE Return("False") /\ UNCHANGED retry
       \/ \E e \in Errors : Raise /\ UNCHANGED <<status, retry>>
    /\ UNCHANGED <<env, attempt, starts, startLog, initialState,
                   transitionPoll, startsAtTransition>>

\* a re-poll that ends the last attempt with continue, so that the loop runs
\* out and the function ends without a return statement
RePoll_FallsOut ==
    /\ cpc = "repoll"
    /\ apiCalls' = apiCalls + 1
    /\ polls' = polls + 1
    /\ \/ \E s \in Statuses :
            /\ status' = s
            /\ UNCHANGED apiError
            /\ IF ~s.plugged_in THEN Return("True") /\ UNCHANGED retry
               ELSE IF s.charging_status = "CHARGING" THEN Return("True") /\ UNCHANGED retry
               ELSE IF retry < MaxRetries
                 THEN cpc' = "start" /\ retry' = retry + 1 /\ result' = result
                 ELSE Return("None") /\ UNCHANGED retry
       \/ \E e \in Errors : Raise /\ UNCHANGED <<status, retry>>
    /\ UNCHANGED <<env, attempt, starts, startLog, initialState,
                   transitionPoll, startsAtTransition>>

\* lines 114-132: the re-poll that follows an ambiguous timeout
RePoll ==
    /\ cpc = "repoll"
    /\ apiCalls' = apiCalls + 1
    /\ polls' = polls + 1
    /\ \/ \E s \in Statuses :
            /\ status' = s
            /\ UNCHANGED apiError
            /\ IF ~s.plugged_in THEN Return("True") /\ UNCHANGED retry
               ELSE IF s.charging_status = "CHARGING" THEN Return("True") /\ UNCHANGED retry
               ELSE IF retry < MaxRetries
                 THEN cpc' = "start" /\ retry' = retry + 1 /\ result' = result
                 ELSE Return("False") /\ UNCHANGED retry
       \/ \E e \in Errors : Raise /\ UNCHANGED <<status, retry>>
    /\ UNCHANGED <<env, attempt, starts, startLog, initialState,
                   transitionPoll, startsAtTransition>>

InitCharge ==
    /\ env \in [username : BOOLEAN, password : BOOLEAN, station_id : BOOLEAN]
    /\ cpc = "idle"
    /\ status = NoStatus
    /\ attempt = 0
    /\ retry = 1
    /\ result = "none"
    /\ starts = 0
    /\ polls = 0
    /\ startLog = <<>>
    /\ apiError = FALSE
    /\ initialState = "NONE"
    /\ transitionPoll = 0
    /\ startsAtTransition = 0
    /\ apiCalls = 0


----------------------------------------------------------------------------
(* charge_github.py: wait_until_charge_window() and main()                 *)
(*                                                                         *)
(* A local time of day is counted in ticks, TicksPerMinute to a minute,    *)
(* from midnight.                                                          *)

\* resolution of the local clock
TicksPerMinute == 2

\* the calendar of datetime
MinutesPerHour == 60
HoursPerDay == 24

TimeOfDay(h, m) == (h * MinutesPerHour + m) * TicksPerMinute

TimesOfDay == 0..(TimeOfDay(HoursPerDay, 0) - 1)

\* now.hour and now.minute
HourOf(t) == t \div (MinutesPerHour * TicksPerMinute)
MinuteOf(t) == (t \div TicksPerMinute) % MinutesPerHour

\* line 20: now.replace(hour=5, minute=59, second=0, microsecond=0)
TargetTime == TimeOfDay(5, 59)

\* a test that lets minute 5 of hour 6 through
InGrace_Inclusive(n) == HourOf(n) = 5 \/ (HourOf(n) = 6 /\ MinuteOf(n) <= 5)

\* line 24
InGrace(n) == HourOf(n) = 5 \/ (HourOf(n) = 6 /\ MinuteOf(n) < 5)

Bool(b) == IF b THEN "True" ELSE "False"

\* lines 16-33: the whole function, the sleep of line 32 included
WaitUntilChargeWindow ==
    /\ mpc = "gate"
    /\ mpc' = "gated"
    /\ IF gateNow >= TargetTime
         THEN /\ proceed' = Bool(InGrace(gateNow))
              /\ wait_seconds' = 0
         ELSE /\ wait_seconds' = TargetTime - gateNow
              /\ proceed' = "True"
    /\ UNCHANGED <<gateNow, exitCode>>

\* lines 155-162: main() exits with 0 outside the window, else calls charge()
MainBranch ==
    /\ mpc = "gated"
    /\ IF proceed = "True"
         THEN mpc' = "charge" /\ UNCHANGED exitCode
         ELSE mpc' = "exited" /\ exitCode' = 0
    /\ UNCHANGED <<gateNow, wait_seconds, proceed>>

\* an entry point that reports success whatever charge() returned
MainExit_AlwaysZero ==
    /\ mpc = "charge"
    /\ cpc = "done"
    /\ mpc' = "exited"
    /\ exitCode' = 0
    /\ UNCHANGED <<gateNow, wait_seconds, proceed>>

\* lines 164-173
MainExit ==
    /\ mpc = "charge"
    /\ cpc = "done"
    /\ mpc' = "exited"
    /\ exitCode' = IF result = "True" THEN 0 ELSE 1
    /\ UNCHANGED <<gateNow, wait_seconds, proceed>>

\* the function is called at any time of the day
InitGate ==
    /\ gateNow \in TimesOfDay
    /\ wait_seconds = 0
    /\ proceed = "none"
    /\ mpc = "gate"
    /\ exitCode = -1

\* line 24: the first instant past the window
GraceEnd == TimeOfDay(6, 5)

\* main() is run at midnight, around the target, around the end of the
\* window, or at the end of the day
InitMain ==
    /\ gateNow \in {0, TargetTime - 1, TargetTime, GraceEnd - 1, GraceEnd,
                     TimeOfDay(HoursPerDay, 0) - 1}
    /\ wait_seconds = 0
    /\ proceed = "none"
    /\ mpc = "gate"
    /\ exitCode = -1

\* main(), not run
InitMainIdle ==
    /\ gateNow = 0
    /\ wait_seconds = 0
    /\ proceed = "none"
    /\ mpc = "none"
    /\ exitCode = -1

----------------------------------------------------------------------------
(* chargepoint_dal/dal.py: RateLimiter                                     *)
(*                                                                         *)
(* Time is counted in ticks and the allowance in units such that one tick  *)
(* of elapsed time refills one unit (line 29: elapsed * rate / per); one   *)
(* request is TicksPerToken units, so a tick is per/(rate*TicksPerToken)   *)
(* seconds and the sleep of line 33 is (TicksPerToken - allowance) ticks.  *)

\* resolution of the clock: ticks needed to refill one request
TicksPerToken == 2
\* largest rate the constructor is given
MaxRate == 2
\* number of concurrent callers of acquire()
NumThreads == 2
\* number of acquire() calls made in a run
MaxCalls == 4
\* the clock is advanced by Tick up to this instant
MaxTime == 6

Threads == 1..NumThreads

Min(a, b) == IF a < b THEN a ELSE b
Max(a, b) == IF a > b THEN a ELSE b

\* a refill without the cap of lines 30-31
Refill_NoCap(a, elapsed, r) == a + elapsed

\* lines 27-31: the allowance after the refill, capped at the capacity
Refill(a, elapsed, r) == Min(a + elapsed, r * TicksPerToken)

\* line 32: self.allowance < 1.0
MustSleep(a) == a < TicksPerToken

\* line 33: (1.0 - self.allowance) * (self.per / self.rate)
SleepTime(a) == TicksPerToken - a

\* lines 17-22
InitLimiter ==
    /\ rate \in 1..MaxRate
    /\ allowance = rate * TicksPerToken
    /\ last_check = 0
    /\ mono = 0
    /\ lockHolder = 0
    /\ tpc = [t \in Threads |-> "idle"]
    /\ wakeAt = 0
    /\ firstCall = -1
    /\ calls = 0
    /\ returned = 0
    /\ noSleepReturned = 0
    /\ sleptAt = -1

\* the passage of time
Tick ==
    /\ mono < MaxTime
    /\ mono' = mono + 1
    /\ UNCHANGED <<rate, allowance, last_check, lockHolder, tpc, wakeAt,
                   firstCall, calls, returned, noSleepReturned, sleptAt>>

\* line 24: a thread calls acquire()
AcquireCall(t) ==
    /\ tpc[t] = "idle"
    /\ calls < MaxCalls
    /\ calls' = calls + 1
    /\ firstCall' = IF firstCall = -1 THEN mono ELSE firstCall
    /\ tpc' = [tpc EXCEPT ![t] = "waiting"]
    /\ UNCHANGED <<rate, allowance, last_check, mono, lockHolder, wakeAt,
                   returned, noSleepReturned, sleptAt>>

\* a lock that any number of threads can hold
AcquireLock_NoMutex(t) ==
    /\ tpc[t] = "waiting"
    /\ lockHolder' = t
    /\ tpc' = [tpc EXCEPT ![t] = "locked"]
    /\ UNCHANGED <<rate, allowance, last_check, mono, wakeAt,
                   firstCall, calls, returned, noSleepReturned, sleptAt>>

\* line 25: with self.lock
AcquireLock(t) ==
    /\ tpc[t] = "waiting"
    /\ lockHolder = 0
    /\ lockHolder' = t
    /\ tpc' = [tpc EXCEPT ![t] = "locked"]
    /\ UNCHANGED <<rate, allowance, last_check, mono, wakeAt,
                   firstCall, calls, returned, noSleepReturned, sleptAt>>

\* a return that does not release the lock
AcquireCheck_KeepsLock(t) ==
    /\ tpc[t] = "locked"
    /\ last_check' = mono
    /\ sleptAt' = -1
    /\ LET a == Refill(allowance, mono - last_check, rate) IN
         IF MustSleep(a)
           THEN /\ allowance' = a
                /\ wakeAt' = mono + SleepTime(a)
                /\ tpc' = [tpc EXCEPT ![t] = "sleeping"]
                /\ UNCHANGED <<lockHolder, returned, noSleepReturned>>
           ELSE /\ allowance' = a - TicksPerToken
                /\ tpc' = [tpc EXCEPT ![t] = "idle"]
                /\ returned' = returned + 1
                /\ noSleepReturned' = noSleepReturned + 1
                /\ UNCHANGED <<lockHolder, wakeAt>>
    /\ UNCHANGED <<rate, mono, firstCall, calls>>

\* lines 26-33 and 36-37: refill, then consume and return, or start to sleep
AcquireCheck(t) ==
    /\ tpc[t] = "locked"
    /\ last_check' = mono
    /\ sleptAt' = -1
    /\ LET a == Refill(allowance, mono - last_check, rate) IN
         IF MustSleep(a)
           THEN /\ allowance' = a
                /\ wakeAt' = mono + SleepTime(a)
                /\ tpc' = [tpc EXCEPT ![t] = "sleeping"]
                /\ UNCHANGED <<lockHolder, returned, noSleepReturned>>
           ELSE /\ allowance' = a - TicksPerToken
                /\ lockHolder' = 0
                /\ tpc' = [tpc EXCEPT ![t] = "idle"]
                /\ returned' = returned + 1
                /\ noSleepReturned' = noSleepReturned + 1
                /\ UNCHANGED wakeAt
    /\ UNCHANGED <<rate, mono, firstCall, calls>>

\* a wake-up that takes a whole unit from the allowance
AcquireWake_Consume(t) ==
    /\ tpc[t] = "sleeping"
    /\ mono' = Max(mono, wakeAt)
    /\ allowance' = allowance - TicksPerToken
    /\ lockHolder' = 0
    /\ tpc' = [tpc EXCEPT ![t] = "idle"]
    /\ returned' = returned + 1
    /\ UNCHANGED <<rate, last_check, wakeAt, firstCall, calls, noSleepReturned>>
    /\ sleptAt' = Max(mono, wakeAt)

\* lines 34-35: the sleep ends (no earlier than asked), the allowance is reset
\* and the lock released; last_check keeps the instant read before the sleep
AcquireWake(t) ==
    /\ tpc[t] = "sleeping"
    /\ mono' = Max(mono, wakeAt)
    /\ allowance' = 0
    /\ lockHolder' = 0
    /\ tpc' = [tpc EXCEPT ![t] = "idle"]
    /\ returned' = returned + 1
    /\ UNCHANGED <<rate, last_check, wakeAt, firstCall, calls, noSleepReturned>>
    /\ sleptAt' = Max(mono, wakeAt)

----------------------------------------------------------------------------
(* chargepoint_dal/dal.py: ChargePointDAL.get_sessions                     *)
(*                                                                         *)
(* Calendar time is counted in instants, InstantsPerMonth to a month, from *)
(* the first instant of January of year 0, a year after 2001. A start_time *)
(* value is a record [kind, t]: "ms" an integer above 10^12 (epoch         *)
(* milliseconds), "int" any other non-zero integer (line 368 reads it as a *)
(* datetime before September 2001, here instant 0), "iso" a text that      *)
(* fromisoformat reads as a naive datetime, "aware" one it reads as a      *)
(* timezone-aware datetime, "bad" any other text, "none" a missing, null,  *)
(* zero or empty value.                                                    *)

\* resolution of the calendar
InstantsPerMonth == 2
\* the calendar of datetime
MonthsPerYear == 12
\* longest batch the API returns
MaxBatchLen == 1
\* largest max_batches argument
MaxBatches == 2
\* number of get_sessions calls in a run
MaxGets == 2
\* number of network requests in a run
MaxRequests == 2

NoDate == -1    \* "date_retrieved" missing, null or empty
BadDate == -2   \* a "date_retrieved" that fromisoformat rejects, or one it
                \* reads as timezone-aware (the comparison of line 276 raises)

\* datetime.datetime(y, m, 1)
FirstInstant(y, m) == (y * MonthsPerYear + (m - 1)) * InstantsPerMonth
\* dt.year and dt.month
YearOf(t) == t \div (MonthsPerYear * InstantsPerMonth)
MonthOf(t) == ((t \div InstantsPerMonth) % MonthsPerYear) + 1

\* line 261
StartOfTarget(y, m) == FirstInstant(y, m)

\* lines 262-265
EndOfTarget(y, m) ==
    IF m = MonthsPerYear THEN FirstInstant(y + 1, 1) ELSE FirstInstant(y, m + 1)

Year == target[1]
Month == target[2]

\* the month asked for: the December of year 0, whose end is in year 1
Targets == {<<0, MonthsPerYear>>}

Ms(t) == [kind |-> "ms", t |-> t]
Iso(t) == [kind |-> "iso", t |-> t]
Untimed == {[kind |-> k, t |-> 0] : k \in {"int", "aware", "bad", "none"}}

\* the session records the API serves for a target month: session 1 started at
\* the last instant before the month, sessions 2 and 3 at its first and last
\* instants, session 4 at the first instant after it; the records of session 5
\* carry no datetime the code compares
SessionValues(y, m) ==
    {[id |-> 1, st |-> Ms(StartOfTarget(y, m) - 1)],
     [id |-> 2, st |-> Ms(StartOfTarget(y, m))],
     [id |-> 3, st |-> Iso(EndOfTarget(y, m) - 1)],
     [id |-> 4, st |-> Ms(EndOfTarget(y, m))]}
      \cup {[id |-> 5, st |-> v] : v \in Untimed}

Ids == {1, 2, 3, 4, 5}

SeqsUpTo(S, n) == UNION {[1..k -> S] : k \in 0..n}

Batches(y, m) == SeqsUpTo(SessionValues(y, m), MaxBatchLen)

\* page_offset values: "" is None or empty, "hint" the p_<year>_<month> of line 283
Hint == "hint"
Cursors == {"", "last_page", "A", Hint}

\* what response.json() gives: a decode failure, or the batch and the cursor that
\* lines 320-327 extract from either response format (any other shape gives the
\* empty batch)
Responses(y, m) ==
    {[json |-> FALSE, sessions |-> <<>>, page_offset |-> ""]}
      \cup [json : {TRUE}, sessions : Batches(y, m), page_offset : Cursors]

\* contents of the month file
AbsentFile == [kind |-> "absent", sessions |-> <<>>, date_retrieved |-> NoDate]
UnreadableFile == [kind |-> "unreadable", sessions |-> <<>>, date_retrieved |-> NoDate]
Record(ss, d) == [kind |-> "record", sessions |-> ss, date_retrieved |-> d]

\* the month file a run can start with: none, one that cannot be read or
\* decoded, a bare list (as _save_cache writes, line 204), or a record
InitialFiles(y, m) ==
    {AbsentFile, UnreadableFile,
     [kind |-> "list", sessions |-> <<>>, date_retrieved |-> NoDate]}
      \cup {Record(<<>>, d) : d \in {NoDate, BadDate, EndOfTarget(y, m) - 1}}
      \cup {Record(<<[id |-> 2, st |-> Ms(StartOfTarget(y, m))]>>, d) :
              d \in {EndOfTarget(y, m) - 1, EndOfTarget(y, m)}}

\* a test that wants the retrieval to be later than the end of the month
IsFinal_Strict(f, y, m) ==
    /\ f.kind = "record"
    /\ f.date_retrieved # NoDate
    /\ f.date_retrieved # BadDate
    /\ f.date_retrieved > EndOfTarget(y, m)

\* a read of the list under a key the record does not have
CachedSessions_Default(f) == <<>>

\* line 277: cache_data.get("sessions", [])
CachedSessions(f) == f.sessions

\* lines 268-277: the stored record is served
IsFinal(f, y, m) ==
    /\ f.kind = "record"
    /\ f.date_retrieved # NoDate
    /\ f.date_retrieved # BadDate
    /\ f.date_retrieved >= EndOfTarget(y, m)

\* lines 336-344: the dates a record adds to batch_dates
StopDates(s) ==
    IF s.st.kind \in {"ms", "iso", "aware"} THEN {s.st.t} ELSE {}

BatchDates(batch) == UNION {StopDates(batch[k]) : k \in DOMAIN batch}

\* lines 350-359: min(), max() or the comparisons meet an aware datetime
HasAware(batch) == \E k \in DOMAIN batch : batch[k].st.kind = "aware"

SetMin(S) == CHOOSE x \in S : \A z \in S : x <= z
SetMax(S) == CHOOSE x \in S : \A z \in S : x >= z

\* lines 346-356: the batch is newer than the target month
TooNew(batch, y, m) ==
    /\ BatchDates(batch) # {}
    /\ SetMin(BatchDates(batch)) >= EndOfTarget(y, m)

\* lines 335-345 and 357: the batch has timestamps the stop test parses, and
\* the latest of them is before start_of_target
TooOld(batch, y, m) ==
    /\ BatchDates(batch) # {}
    /\ SetMax(BatchDates(batch)) < StartOfTarget(y, m)

\* a loop without the stop of lines 357-361
SmartStop_Never(batch, y, m) == FALSE

\* a stop test that takes every batch outside the target month for the end
SmartStop_OutsideMonth(batch, y, m) ==
    /\ BatchDates(batch) # {}
    /\ \/ SetMin(BatchDates(batch)) >= EndOfTarget(y, m)
       \/ SetMax(BatchDates(batch)) < StartOfTarget(y, m)

\* lines 346-361: the batch is older than the target month
SmartStop(batch, y, m) ==
    /\ BatchDates(batch) # {}
    /\ ~(SetMin(BatchDates(batch)) >= EndOfTarget(y, m))
    /\ SetMax(BatchDates(batch)) < StartOfTarget(y, m)

\* lines 366-371: the datetime the filter parses (-1: the record is skipped)
FilterDate(s) ==
    CASE s.st.kind \in {"ms", "iso", "aware"} -> s.st.t
      [] s.st.kind = "int" -> 0
      [] OTHER -> -1

\* a filter that keeps every record whose start time it can parse
Matches_AnyDate(s, y, m) == FilterDate(s) # -1

\* lines 367-374
Matches(s, y, m) ==
    /\ FilterDate(s) # -1
    /\ YearOf(FilterDate(s)) = y
    /\ MonthOf(FilterDate(s)) = m

RECURSIVE Filter(_, _, _)
Filter(batch, y, m) ==
    IF batch = <<>> THEN <<>>
    ELSE (IF Matches(Head(batch), y, m) THEN <<Head(batch)>> ELSE <<>>)
           \o Filter(Tail(batch), y, m)

\* a loop without the bound of line 298
LoopContinues_Unbounded(n, mb) == TRUE

\* line 298: for i in range(max_batches) has an iteration n
LoopContinues(n, mb) == n < mb

\* line 377
LastPage(next, last) == next = "last_page" \/ next = "" \/ next = last

\* the first instant of the month that follows the target month
NextMonthStart(y, m) == (y * MonthsPerYear + m) * InstantsPerMonth

\* the record's start time lies in [start_of_target, end_of_target)
InWindow(s, y, m) ==
    /\ FilterDate(s) # -1
    /\ FirstInstant(y, m) <= FilterDate(s)
    /\ FilterDate(s) < NextMonthStart(y, m)

NoBatches == [d \in Ids |-> 0]

CountBatch(batch, y, m) ==
    [d \in Ids |-> idBatches[d] +
        IF \E k \in DOMAIN batch : batch[k].id = d /\ InWindow(batch[k], y, m)
          THEN 1 ELSE 0]

\* ChargePointDAL.__init__ (lines 139-144) and the files it finds
InitDAL ==
    /\ target \in Targets
    /\ monthFile \in InitialFiles(target[1], target[2])
    /\ cache = [present |-> FALSE, sessions |-> <<>>]
    /\ utc \in {EndOfTarget(target[1], target[2]) - 1, EndOfTarget(target[1], target[2])}
    /\ gpc = "idle"
    /\ now = 0
    /\ sessions = <<>>
    /\ page_offset = ""
    /\ last_offset = ""
    /\ i = 0
    /\ max_batches = 0
    /\ gresult = <<>>
    /\ path = "none"
    /\ exitReason = "none"
    /\ gets = 0
    /\ given = <<TRUE, TRUE>>
    /\ requests = 0
    /\ callRequests = 0
    /\ idBatches = NoBatches
    /\ next_offset = ""
    /\ tooNew = FALSE
    /\ tooOld = FALSE

\* the DAL, not called
InitDALIdle ==
    /\ target = <<0, MonthsPerYear>>
    /\ monthFile = AbsentFile
    /\ cache = [present |-> FALSE, sessions |-> <<>>]
    /\ utc = 0
    /\ gpc = "idle"
    /\ now = 0
    /\ sessions = <<>>
    /\ page_offset = ""
    /\ last_offset = ""
    /\ i = 0
    /\ max_batches = 0
    /\ gresult = <<>>
    /\ path = "none"
    /\ exitReason = "none"
    /\ gets = 0
    /\ given = <<TRUE, TRUE>>
    /\ requests = 0
    /\ callRequests = 0
    /\ idBatches = NoBatches
    /\ next_offset = ""
    /\ tooNew = FALSE
    /\ tooOld = FALSE

\* the wall clock advances, up to the end of the target month
UtcTick ==
    /\ utc < EndOfTarget(Year, Month)
    /\ utc' = utc + 1
    /\ UNCHANGED <<target, monthFile, cache, gpc, now, sessions, page_offset,
                   last_offset, i, max_batches, gresult, path, exitReason, gets, given,
                   requests, callRequests, idBatches, next_offset, tooNew, tooOld>>

\* a test of the year alone
Missing_YearOnly(g) == ~g[1]

\* line 253: year is None or month is None
Missing(g) == ~g[1] \/ ~g[2]

\* lines 253-296: the call, up to the first request
GetSessionsCall ==
    /\ gpc \in {"idle", "done", "raised"}
    /\ gets < MaxGets
    /\ gets' = gets + 1
    /\ callRequests' = 0
    /\ idBatches' = NoBatches
    /\ exitReason' = "none"
    /\ next_offset' = ""
    /\ tooNew' = FALSE
    /\ tooOld' = FALSE
    /\ \E g \in BOOLEAN \X BOOLEAN, mb \in 0..MaxBatches :
         /\ requests + mb <= MaxRequests
         /\ max_batches' = mb
         /\ given' = g
         /\ IF Missing(g)
              THEN \* line 254: ValueError
                   /\ gpc' = "raised"
                   /\ path' = "none"
                   /\ sessions' = <<>>
                   /\ page_offset' = ""
                   /\ last_offset' = ""
                   /\ i' = 0
                   /\ UNCHANGED <<now, gresult>>
              ELSE /\ now' = utc
                   /\ IF IsFinal(monthFile, Year, Month)
                        THEN /\ gpc' = "done"
                             /\ path' = "cache"
                             /\ gresult' = CachedSessions(monthFile)
                             /\ sessions' = <<>>
                             /\ page_offset' = ""
                             /\ last_offset' = ""
                             /\ i' = 0
                        ELSE /\ path' = "fetch"
                             /\ sessions' = <<>>
                             /\ page_offset' = Hint
                             /\ last_offset' = ""
                             /\ i' = 0
                             /\ IF LoopContinues(0, mb)
                                  THEN gpc' = "request" /\ UNCHANGED gresult
                                  ELSE gpc' = "save" /\ UNCHANGED gresult
    /\ UNCHANGED <<target, monthFile, cache, utc, requests>>

\* lines 302-305: the request of iteration i is sent, or fails and raises
Request ==
    /\ gpc = "request"
    /\ requests' = requests + 1
    /\ callRequests' = callRequests + 1
    /\ \/ gpc' = "acquire"
       \/ gpc' = "raised"
    /\ UNCHANGED <<target, monthFile, cache, utc, now, sessions, page_offset,
                   last_offset, i, max_batches, gresult, path, exitReason, gets, given,
                   idBatches, next_offset, tooNew, tooOld>>

\* line 306: acquire() by the only caller (lines 24-37), the sleep included
RateLimiterAcquire ==
    /\ gpc = "acquire"
    /\ gpc' = "process"
    /\ calls' = calls + 1
    /\ returned' = returned + 1
    /\ firstCall' = IF firstCall = -1 THEN mono ELSE firstCall
    /\ last_check' = mono
    /\ LET a == Refill(allowance, mono - last_check, rate) IN
         IF MustSleep(a)
           THEN /\ mono' = mono + SleepTime(a)
                /\ allowance' = 0
                /\ UNCHANGED noSleepReturned
                /\ sleptAt' = mono + SleepTime(a)
           ELSE /\ allowance' = a - TicksPerToken
                /\ noSleepReturned' = noSleepReturned + 1
                /\ sleptAt' = -1
                /\ UNCHANGED mono
    /\ UNCHANGED <<rate, lockHolder, tpc, wakeAt>>
    /\ UNCHANGED <<target, monthFile, cache, utc, now, sessions, page_offset,
                   last_offset, i, max_batches, gresult, path, exitReason, gets, given,
                   requests, callRequests, idBatches, next_offset, tooNew, tooOld>>

\* a loop that lets the decode failure of line 311 escape
ExitLoop_DecodeRaises(why) ==
    /\ gpc' = (IF why = "decode" THEN "raised" ELSE "save")
    /\ exitReason' = why

\* lines 313, 331, 361, 378 and the end of range(max_batches): the loop is left
\* for the save of line 383
ExitLoop(why) ==
    /\ gpc' = "save"
    /\ exitReason' = why

\* lines 309-381: the response is decoded and the batch analysed, filtered and
\* the next page chosen
Process ==
    /\ gpc = "process"
    /\ \E resp \in Responses(Year, Month) :
         LET batch == resp.sessions
             next == resp.page_offset
         IN
         IF ~resp.json
           THEN /\ ExitLoop("decode")
                /\ tooNew' = FALSE
                /\ tooOld' = FALSE
                /\ UNCHANGED <<sessions, page_offset, last_offset, i, idBatches,
                               next_offset>>
         ELSE IF batch = <<>>
           THEN /\ ExitLoop("empty")
                /\ next_offset' = next
                /\ tooNew' = FALSE
                /\ tooOld' = TooOld(batch, Year, Month)
                /\ UNCHANGED <<sessions, page_offset, last_offset, i, idBatches>>
         ELSE IF HasAware(batch)
           THEN /\ gpc' = "raised"
                /\ next_offset' = next
                /\ tooNew' = FALSE
                /\ tooOld' = TooOld(batch, Year, Month)
                /\ idBatches' = CountBatch(batch, Year, Month)
                /\ UNCHANGED <<sessions, page_offset, last_offset, i, exitReason>>
         ELSE IF SmartStop(batch, Year, Month)
           THEN /\ ExitLoop("smart_stop")
                /\ next_offset' = next
                /\ tooNew' = TooNew(batch, Year, Month)
                /\ tooOld' = TooOld(batch, Year, Month)
                /\ idBatches' = CountBatch(batch, Year, Month)
                /\ UNCHANGED <<sessions, page_offset, last_offset, i>>
         ELSE /\ sessions' = sessions \o Filter(batch, Year, Month)
              /\ next_offset' = next
              /\ tooNew' = TooNew(batch, Year, Month)
              /\ tooOld' = TooOld(batch, Year, Month)
              /\ idBatches' = CountBatch(batch, Year, Month)
              /\ IF LastPage(next, last_offset)
                   THEN /\ ExitLoop("cursor")
                        /\ UNCHANGED <<page_offset, last_offset, i>>
                   ELSE /\ last_offset' = next
                        /\ page_offset' = next
                        /\ i' = i + 1
                        /\ IF LoopContinues(i + 1, max_batches)
                             THEN gpc' = "request" /\ UNCHANGED exitReason
                             ELSE ExitLoop("max_batches")
    /\ UNCHANGED <<target, monthFile, cache, utc, now, max_batches, gresult, path,
                   gets, given, requests, callRequests>>

\* a save that stamps the record with the wall clock read at the time of
\* the write
Save_StampsUtc ==
    /\ gpc = "save"
    /\ \/ /\ dalLock = 0
          /\ monthFile' = Record(sessions, utc)
          /\ cache' = [present |-> TRUE, sessions |-> sessions]
          /\ gresult' = sessions
          /\ gpc' = "done"
       \/ /\ monthFile' \in {monthFile, UnreadableFile}
          /\ gpc' = "raised"
          /\ UNCHANGED <<cache, gresult>>
    /\ UNCHANGED <<target, utc, now, sessions, page_offset, last_offset, i,
                   max_batches, path, exitReason, gets, given, requests, callRequests,
                   idBatches, next_offset, tooNew, tooOld>>

\* lines 383-393: the month file is written, the memory cache updated under
\* self.lock and the list returned; or the directory or the file cannot be written and the call raises
Save ==
    /\ gpc = "save"
    /\ \/ /\ dalLock = 0
          /\ monthFile' = Record(sessions, now)
          /\ cache' = [present |-> TRUE, sessions |-> sessions]
          /\ gresult' = sessions
          /\ gpc' = "done"
       \/ /\ monthFile' \in {monthFile, UnreadableFile}
          /\ gpc' = "raised"
          /\ UNCHANGED <<cache, gresult>>
    /\ UNCHANGED <<target, utc, now, sessions, page_offset, last_offset, i,
                   max_batches, path, exitReason, gets, given, requests, callRequests,
                   idBatches, next_offset, tooNew, tooOld>>

\* the rate limiter, unused
InitLimiterIdle ==
    /\ rate = 1
    /\ allowance = TicksPerToken
    /\ last_check = 0
    /\ mono = 0
    /\ lockHolder = 0
    /\ tpc = [t \in Threads |-> "idle"]
    /\ wakeAt = 0
    /\ firstCall = -1
    /\ calls = 0
    /\ returned = 0
    /\ noSleepReturned = 0
    /\ sleptAt = -1

\* charge(), not called
InitChargeIdle ==
    /\ env = [username |-> TRUE, password |-> TRUE, station_id |-> TRUE]
    /\ cpc = "idle"
    /\ status = NoStatus
    /\ attempt = 0
    /\ retry = 1
    /\ result = "none"
    /\ starts = 0
    /\ polls = 0
    /\ startLog = <<>>
    /\ apiError = FALSE
    /\ initialState = "NONE"
    /\ transitionPoll = 0
    /\ startsAtTransition = 0
    /\ apiCalls = 0


----------------------------------------------------------------------------
(* chargepoint_dal/dal.py: ChargePointDAL.get_session_activity             *)
(*                                                                         *)
(* A session detail is "d", a JSON object whose charging_status has a      *)
(* start_time, or "e", any other JSON object (an error body for one);      *)
(* "null" is the None that line 100 puts in place of a response that       *)
(* cannot be decoded, "missing" a key self.cache does not hold.            *)

\* number of get_session_activity calls in a run
MaxActCalls == 3

\* the threads that call get_session_activity: two, the least number that
\* can race
Callers == {1, 2}

\* line 43: the session id asked for; the two include_samples keys of one id
\* share its per-session file
SessionIds == {1}

\* line 78: the cache key, as <<session_id, include_samples>>
Keys == SessionIds \X BOOLEAN

Details == {"d", "e"}

\* what self.cache[cache_key] can be
CacheValues == {"missing", "null"} \cup Details

\* a per-session file: none, one that cannot be opened or decoded, or a detail
FileValues == {"absent", "unreadable"} \cup Details

NoKey == <<0, FALSE>>

\* lines 61-67
FoundFile(sid) == sessionFiles[sid] # "absent"

\* lines 217-233: what the lookup of lines 61-67 can find after _save_cache
\* has written <session_id>.json, in the directory of its start_time, for
\* every session_activity key that holds a detail with a start_time: the file
\* written, or a file that was there before in another directory
SavedSessionFiles(c) ==
    {f \in [SessionIds -> FileValues] :
        \A sid \in SessionIds :
            IF \E inc \in BOOLEAN : c[<<sid, inc>>] = "d"
              THEN f[sid] \in {"d"} \cup ({sessionFiles[sid]} \ {"absent"})
              ELSE f[sid] = sessionFiles[sid]}

\* lines 192-204: the month file after _save_cache has written the list of a
\* sessions_ key that names p_<year>_<month>
SavedMonthFile ==
    IF legacyMonthKey
      THEN [kind |-> "list", sessions |-> <<>>, date_retrieved |-> NoDate]
      ELSE monthFile

\* no other thread is inside get_session_activity
Sequential(t) ==
    \A u \in Callers \ {t} : apc[u] \in {"idle", "done", "raised"}

\* line 43: the call
ActivityCall(t) ==
    /\ apc[t] \in {"idle", "done", "raised"}
    /\ actCalls < MaxActCalls
    /\ actCalls' = actCalls + 1
    /\ \E k \in Keys : cache_key' = [cache_key EXCEPT ![t] = k]
    /\ apc' = [apc EXCEPT ![t] = "file"]
    /\ areturn' = [areturn EXCEPT ![t] = "none"]
    /\ UNCHANGED <<sessionFiles, activityCache, legacyMonthKey, fetched, fetches, saves,
                   dalLock>>

\* a lookup that prefers the flat cache to the per-session file
FindSessionFile_CacheFirst(t) ==
    /\ apc[t] = "file"
    /\ LET f == sessionFiles[cache_key[t][1]]
           c == activityCache[cache_key[t]] IN
         IF c # "missing"
           THEN /\ apc' = [apc EXCEPT ![t] = "done"]
                /\ areturn' = [areturn EXCEPT ![t] = c]
           ELSE IF FoundFile(cache_key[t][1]) /\ f # "unreadable"
             THEN /\ apc' = [apc EXCEPT ![t] = "done"]
                  /\ areturn' = [areturn EXCEPT ![t] = f]
             ELSE /\ apc' = [apc EXCEPT ![t] = "lock_check"]
                  /\ UNCHANGED areturn
    /\ UNCHANGED <<sessionFiles, activityCache, legacyMonthKey, cache_key, fetched,
                   fetches, saves, dalLock, actCalls>>

\* lines 58-76: the per-session file is looked for and, if it can be read,
\* returned; a file that cannot be read leads on to the flat cache
FindSessionFile(t) ==
    /\ apc[t] = "file"
    /\ LET f == sessionFiles[cache_key[t][1]] IN
         IF FoundFile(cache_key[t][1]) /\ f # "unreadable"
           THEN /\ apc' = [apc EXCEPT ![t] = "done"]
                /\ areturn' = [areturn EXCEPT ![t] = f]
           ELSE /\ apc' = [apc EXCEPT ![t] = "lock_check"]
                /\ UNCHANGED areturn
    /\ UNCHANGED <<sessionFiles, activityCache, legacyMonthKey, cache_key, fetched,
                   fetches, saves, dalLock, actCalls>>

\* a lock that is given to a thread while another holds it
LockDAL_NoMutex(t) ==
    /\ apc[t] \in {"lock_check", "lock_store"}
    /\ dalLock' = t
    /\ apc' = [apc EXCEPT ![t] = IF apc[t] = "lock_check" THEN "check" ELSE "store"]
    /\ UNCHANGED <<sessionFiles, activityCache, legacyMonthKey, cache_key, areturn,
                   fetched, fetches, saves, actCalls>>

\* lines 80 and 101: with self.lock
LockDAL(t) ==
    /\ apc[t] \in {"lock_check", "lock_store"}
    /\ dalLock = 0
    /\ dalLock' = t
    /\ apc' = [apc EXCEPT ![t] = IF apc[t] = "lock_check" THEN "check" ELSE "store"]
    /\ UNCHANGED <<sessionFiles, activityCache, legacyMonthKey, cache_key, areturn,
                   fetched, fetches, saves, actCalls>>

\* a lookup that never finds the key
CheckCache_AlwaysMiss(t) ==
    /\ apc[t] = "check"
    /\ dalLock' = 0
    /\ apc' = [apc EXCEPT ![t] = "post"]
    /\ UNCHANGED areturn
    /\ UNCHANGED <<sessionFiles, activityCache, legacyMonthKey, cache_key, fetched,
                   fetches, saves, actCalls>>

\* lines 81-85: the flat cache is looked up and the lock released
CheckCache(t) ==
    /\ apc[t] = "check"
    /\ dalLock' = 0
    /\ IF activityCache[cache_key[t]] # "missing"
         THEN /\ apc' = [apc EXCEPT ![t] = "done"]
              /\ areturn' = [areturn EXCEPT ![t] = activityCache[cache_key[t]]]
         ELSE /\ apc' = [apc EXCEPT ![t] = "post"]
              /\ UNCHANGED areturn
    /\ UNCHANGED <<sessionFiles, activityCache, legacyMonthKey, cache_key, fetched,
                   fetches, saves, actCalls>>

\* lines 87-92: the request is sent, or fails and the call raises
PostActivity(t) ==
    /\ apc[t] = "post"
    /\ fetches' = [fetches EXCEPT ![cache_key[t]] = @ + 1]
    /\ \/ apc' = [apc EXCEPT ![t] = "acquire"]
       \/ apc' = [apc EXCEPT ![t] = "raised"]
    /\ UNCHANGED <<sessionFiles, activityCache, legacyMonthKey, cache_key, areturn,
                   fetched, saves, dalLock, actCalls>>

\* line 93: acquire() by the only caller (lines 24-37), the sleep included
AcquireActivity(t) ==
    /\ apc[t] = "acquire"
    /\ apc' = [apc EXCEPT ![t] = "lock_store"]
    /\ calls' = calls + 1
    /\ returned' = returned + 1
    /\ firstCall' = IF firstCall = -1 THEN mono ELSE firstCall
    /\ last_check' = mono
    /\ LET a == Refill(allowance, mono - last_check, rate) IN
         IF MustSleep(a)
           THEN /\ mono' = mono + SleepTime(a)
                /\ allowance' = 0
                /\ UNCHANGED noSleepReturned
                /\ sleptAt' = mono + SleepTime(a)
           ELSE /\ allowance' = a - TicksPerToken
                /\ noSleepReturned' = noSleepReturned + 1
                /\ sleptAt' = -1
                /\ UNCHANGED mono
    /\ UNCHANGED <<rate, lockHolder, tpc, wakeAt>>
    /\ UNCHANGED <<sessionFiles, activityCache, legacyMonthKey, cache_key, areturn,
                   fetched, fetches, saves, dalLock, actCalls>>

\* a store that keeps no marker for a response that cannot be decoded
StoreActivity_NoMarker(t) ==
    /\ apc[t] = "store"
    /\ dalLock' = 0
    /\ \E data \in {"null"} \cup Details :
         LET c == IF data = "null" THEN activityCache
                  ELSE [activityCache EXCEPT ![cache_key[t]] = data] IN
         /\ activityCache' = c
         /\ fetched' = [fetched EXCEPT ![cache_key[t]] = data]
         /\ \/ /\ saves' = saves + 1
               /\ monthFile' = SavedMonthFile
               /\ sessionFiles' \in SavedSessionFiles(c)
               /\ apc' = [apc EXCEPT ![t] = "done"]
               /\ areturn' = [areturn EXCEPT ![t] = data]
            \/ /\ apc' = [apc EXCEPT ![t] = "raised"]
               /\ UNCHANGED <<saves, monthFile, sessionFiles, areturn>>
    /\ UNCHANGED <<legacyMonthKey, cache_key, fetches, actCalls>>
    /\ UNCHANGED <<target, cache, utc, gpc, now, sessions, page_offset, last_offset,
                   i, max_batches, gresult, path, exitReason, gets, given, requests,
                   callRequests, idBatches, next_offset, tooNew, tooOld>>

\* lines 94-104: the response is decoded (None when it cannot be), stored in
\* self.cache under the lock, and _save_cache (lines 171-244) writes the flat
\* cache file, the month files and the per-session files and the data is
\* returned; or the flat cache file cannot be written and the call raises
StoreActivity(t) ==
    /\ apc[t] = "store"
    /\ dalLock' = 0
    /\ \E data \in {"null"} \cup Details :
         LET c == [activityCache EXCEPT ![cache_key[t]] = data] IN
         /\ activityCache' = c
         /\ fetched' = [fetched EXCEPT ![cache_key[t]] = data]
         /\ \/ /\ saves' = saves + 1
               /\ monthFile' = SavedMonthFile
               /\ sessionFiles' \in SavedSessionFiles(c)
               /\ apc' = [apc EXCEPT ![t] = "done"]
               /\ areturn' = [areturn EXCEPT ![t] = data]
            \/ /\ apc' = [apc EXCEPT ![t] = "raised"]
               /\ UNCHANGED <<saves, monthFile, sessionFiles, areturn>>
    /\ UNCHANGED <<legacyMonthKey, cache_key, fetches, actCalls>>
    /\ UNCHANGED <<target, cache, utc, gpc, now, sessions, page_offset, last_offset,
                   i, max_batches, gresult, path, exitReason, gets, given, requests,
                   callRequests, idBatches, next_offset, tooNew, tooOld>>

\* the files and the flat cache (lines 163-169) a DAL can be constructed on
InitActivity ==
    /\ sessionFiles \in [SessionIds -> FileValues]
    /\ activityCache \in [Keys -> CacheValues]
    /\ legacyMonthKey \in BOOLEAN
    /\ apc = [t \in Callers |-> "idle"]
    /\ cache_key = [t \in Callers |-> NoKey]
    /\ areturn = [t \in Callers |-> "none"]
    /\ fetched = [k \in Keys |-> "none"]
    /\ fetches = [k \in Keys |-> 0]
    /\ saves = 0
    /\ dalLock = 0
    /\ actCalls = 0

\* get_session_activity, not called
InitActivityIdle ==
    /\ sessionFiles = [sid \in SessionIds |-> "absent"]
    /\ activityCache = [k \in Keys |-> "missing"]
    /\ legacyMonthKey = FALSE
    /\ apc = [t \in Callers |-> "idle"]
    /\ cache_key = [t \in Callers |-> NoKey]
    /\ areturn = [t \in Callers |-> "none"]
    /\ fetched = [k \in Keys |-> "none"]
    /\ fetches = [k \in Keys |-> 0]
    /\ saves = 0
    /\ dalLock = 0
    /\ actCalls = 0

\* get_sessions not called, the month file absent or holding a record retrieved
\* at the end of the target month
InitDALStored ==
    /\ target \in Targets
    /\ monthFile \in {AbsentFile,
                       Record(<<[id |-> 2, st |-> Ms(StartOfTarget(target[1], target[2]))]>>,
                              EndOfTarget(target[1], target[2]))}
    /\ cache = [present |-> FALSE, sessions |-> <<>>]
    /\ utc = EndOfTarget(target[1], target[2])
    /\ gpc = "idle"
    /\ now = 0
    /\ sessions = <<>>
    /\ page_offset = ""
    /\ last_offset = ""
    /\ i = 0
    /\ max_batches = 0
    /\ gresult = <<>>
    /\ path = "none"
    /\ exitReason = "none"
    /\ gets = 0
    /\ given = <<TRUE, TRUE>>
    /\ requests = 0
    /\ callRequests = 0
    /\ idBatches = NoBatches
    /\ next_offset = ""
    /\ tooNew = FALSE
    /\ tooOld = FALSE

----------------------------------------------------------------------------
(* charge(): specification and properties *)

NextCharge ==
    \/ ChargeEnter /\ UNCHANGED <<actVars, mainVars, limiterVars, dalVars>>
    \/ Authenticate /\ UNCHANGED <<actVars, mainVars, limiterVars, dalVars>>
    \/ GetHomeChargers /\ UNCHANGED <<actVars, mainVars, limiterVars, dalVars>>
    \/ CheckStatus /\ UNCHANGED <<actVars, mainVars, limiterVars, dalVars>>
    \/ WaitPoll /\ UNCHANGED <<actVars, mainVars, limiterVars, dalVars>>
    \/ StartCharging /\ UNCHANGED <<actVars, mainVars, limiterVars, dalVars>>
    \/ RePoll /\ UNCHANGED <<actVars, mainVars, limiterVars, dalVars>>

InitSpecCharge == InitCharge /\ InitMainIdle /\ InitLimiterIdle /\ InitDALIdle /\ InitActivityIdle

SpecCharge == InitSpecCharge /\ [][NextCharge]_vars

LastStart == startLog[Len(startLog)]

\* C1: every start command is issued while the most recently fetched status
\* (initial check, last wait poll or re-poll) has been fetched and reports a
\* charging state other than CHARGING.
C1_NoStartWhileCharging ==
    [][starts' > starts => polls > 0 /\ status.charging_status # "CHARGING"]_vars

\* a second start command issued by a run that began with a scheduled charge
C1_Witness ==
    /\ starts = 2
    /\ initialState = "CHARGING"
    /\ status.charging_status = "NOT_CHARGING"

\* C2: when an API call failed with anything but the start timeout, charge()
\* returns False; it returns True only when the vehicle was seen unplugged, the
\* wait was exhausted, the last start command returned, or the re-poll after a
\* timeout showed CHARGING.
C2_FailuresAreNotSuccess ==
    cpc = "done" =>
        /\ apiError => result = "False"
        /\ result = "True" =>
              \/ polls > 0 /\ ~status.plugged_in
              \/ /\ attempt = WaitAttempts
                 /\ status.charging_status = "CHARGING"
                 /\ starts = 0
              \/ starts > 0 /\ LastStart = "ok"
              \/ /\ starts > 0
                 /\ LastStart = "timeout"
                 /\ status.charging_status = "CHARGING"

\* the status query after a timed-out second start command failed
C2_Witness ==
    /\ cpc = "done"
    /\ apiError
    /\ startLog = <<"timeout", "timeout">>
    /\ polls = 3
    /\ result = "False"

\* C10: when the run began CHARGING and wait poll k is the first to show the
\* vehicle plugged in and not CHARGING, no start command precedes that poll,
\* a start command follows it, and if that command returns it is the only one
\* and charge() returns True.
C10_OneStartAfterTransition ==
    transitionPoll >= 1 =>
        /\ initialState = "CHARGING"
        /\ transitionPoll <= WaitAttempts
        /\ startsAtTransition = 0
        /\ cpc = "done" => starts >= 1
        /\ (starts >= 1 /\ startLog[1] = "ok") =>
              starts = 1 /\ cpc = "done" /\ result = "True"

\* the scheduled charge ended at the second wait poll and the start succeeded
C10_Witness ==
    /\ transitionPoll = 2
    /\ cpc = "done"
    /\ startLog = <<"ok">>
    /\ result = "True"

\* once charge() has returned it issues no start command and no status query
ChargeReturned ==
    cpc = "done" => UNCHANGED <<starts, polls, apiCalls, result>>

\* C11: when start attempt n (1 to 3) raised the start timeout and the re-poll
\* that follows shows the vehicle plugged in and CHARGING, charge() returns
\* True and the start commands issued number exactly n.
C11_SpuriousTimeout ==
    /\ [][(/\ cpc = "repoll"
           /\ ~apiError'
           /\ status'.plugged_in
           /\ status'.charging_status = "CHARGING")
          => /\ LastStart = "timeout"
             /\ retry \in 1..3
             /\ cpc' = "done"
             /\ result' = "True"
             /\ starts' = retry
             /\ Len(startLog') = retry]_vars
    /\ [][ChargeReturned]_vars

\* the second start command timed out and its re-poll showed CHARGING
C11_Witness ==
    /\ cpc = "done"
    /\ ~apiError
    /\ startLog = <<"timeout", "timeout">>
    /\ status.plugged_in
    /\ status.charging_status = "CHARGING"
    /\ result = "True"
    /\ starts = 2

\* C12: no fourth start command is ever issued, and when the third start
\* command timed out like the two before it and its re-poll shows the vehicle
\* plugged in and not CHARGING, charge() returns False after exactly 3 start
\* commands.
C12_RetryCeiling ==
    /\ [](starts <= 3)
    /\ [][(/\ cpc = "repoll"
           /\ retry = 3
           /\ ~apiError'
           /\ status'.plugged_in
           /\ status'.charging_status # "CHARGING")
          => /\ startLog' = <<"timeout", "timeout", "timeout">>
             /\ starts' = 3
             /\ cpc' = "done"
             /\ result' = "False"]_vars
    /\ [](starts = 3 /\ cpc # "done" => cpc = "repoll")

\* three timeouts, three re-polls showing NOT_CHARGING, and the failure
C12_Witness ==
    /\ cpc = "done"
    /\ ~apiError
    /\ startLog = <<"timeout", "timeout", "timeout">>
    /\ status.plugged_in
    /\ status.charging_status = "NOT_CHARGING"
    /\ result = "False"
    /\ initialState = "NOT_CHARGING"
    /\ polls = 4

\* C13: when the initial status reports not connected charge() returns False,
\* whatever plugged_in is; otherwise when it reports not plugged in charge()
\* returns True; either way no start command and no other status query is
\* issued.
C13_InitialCheck ==
    /\ [][(cpc = "check" /\ ~apiError')
          => /\ polls' = 1
             /\ starts' = 0
             /\ ~status'.connected => (cpc' = "done" /\ result' = "False")
             /\ (status'.connected /\ ~status'.plugged_in)
                   => (cpc' = "done" /\ result' = "True")]_vars
    /\ [][ChargeReturned]_vars

\* the charger was offline and reported no vehicle
C13_Witness ==
    /\ cpc = "done"
    /\ ~apiError
    /\ polls = 1
    /\ starts = 0
    /\ ~status.connected
    /\ ~status.plugged_in
    /\ result = "False"

C15_UnplugEndsRun ==
    /\ [][(/\ cpc \in {"wait", "repoll"}
           /\ ~apiError'
           /\ ~status'.plugged_in)
          => /\ cpc' = "done"
             /\ result' = "True"
             /\ starts' = starts
             /\ polls' = polls + 1]_vars
    /\ [][cpc = "done" => starts' = starts /\ polls' = polls]_vars

\* the vehicle was unplugged during the scheduled-charge wait
C15_Witness ==
    /\ cpc = "done"
    /\ ~apiError
    /\ initialState = "CHARGING"
    /\ attempt = 3
    /\ ~status.plugged_in
    /\ starts = 0
    /\ result = "True"

\* C16: when a start command raises anything but the start timeout (a
\* communication error with another message included), charge() returns False
\* at once: no start command and no status query follows.
C16_FatalStartError ==
    /\ [][(cpc = "start" /\ starts' = starts + 1 /\ startLog'[Len(startLog')] = "fatal")
          => /\ cpc' = "done"
             /\ result' = "False"
             /\ polls' = polls]_vars
    /\ [][cpc = "done" => UNCHANGED <<starts, polls, startLog>>]_vars

\* the second start command failed with a fatal error
C16_Witness ==
    /\ cpc = "done"
    /\ startLog = <<"timeout", "fatal">>
    /\ polls = 2
    /\ result = "False"

----------------------------------------------------------------------------
(* wait_until_charge_window() and main(): specifications and properties *)

NextGate ==
    WaitUntilChargeWindow /\ UNCHANGED <<actVars, chargeVars, limiterVars, dalVars>>

InitSpecGate == InitGate /\ InitChargeIdle /\ InitLimiterIdle /\ InitDALIdle /\ InitActivityIdle

SpecGate == InitSpecGate /\ [][NextGate]_vars

\* line 162: charge() runs inside main()
NextMain ==
    \/ WaitUntilChargeWindow /\ UNCHANGED <<actVars, chargeVars, limiterVars, dalVars>>
    \/ MainBranch /\ UNCHANGED <<actVars, chargeVars, limiterVars, dalVars>>
    \/ mpc = "charge" /\ ChargeEnter /\ UNCHANGED <<actVars, mainVars, limiterVars, dalVars>>
    \/ mpc = "charge" /\ Authenticate /\ UNCHANGED <<actVars, mainVars, limiterVars, dalVars>>
    \/ mpc = "charge" /\ GetHomeChargers /\ UNCHANGED <<actVars, mainVars, limiterVars, dalVars>>
    \/ mpc = "charge" /\ CheckStatus /\ UNCHANGED <<actVars, mainVars, limiterVars, dalVars>>
    \/ mpc = "charge" /\ WaitPoll /\ UNCHANGED <<actVars, mainVars, limiterVars, dalVars>>
    \/ mpc = "charge" /\ StartCharging /\ UNCHANGED <<actVars, mainVars, limiterVars, dalVars>>
    \/ mpc = "charge" /\ RePoll /\ UNCHANGED <<actVars, mainVars, limiterVars, dalVars>>
    \/ MainExit /\ UNCHANGED <<actVars, chargeVars, limiterVars, dalVars>>

InitSpecMain == InitMain /\ InitCharge /\ InitLimiterIdle /\ InitDALIdle /\ InitActivityIdle

SpecMain == InitSpecMain /\ [][NextMain]_vars

\* 05:59:00 and 06:05:00, the target and the target plus 6 minutes, in ticks
C17_Target == (5 * 60 + 59) * TicksPerMinute
C17_End == (5 * 60 + 59 + 6) * TicksPerMinute

\* C17: for every local time of day `now`, when now < 05:59:00 the gate sleeps
\* exactly 05:59:00 - now and proceeds; when 05:59:00 <= now < 06:05:00 it
\* proceeds without sleeping; otherwise it neither proceeds nor sleeps.
C17_WindowGate ==
    mpc = "gated" =>
        /\ gateNow < C17_Target =>
              (wait_seconds = C17_Target - gateNow /\ proceed = "True")
        /\ (C17_Target <= gateNow /\ gateNow < C17_End) =>
              (wait_seconds = 0 /\ proceed = "True")
        /\ gateNow >= C17_End =>
              (wait_seconds = 0 /\ proceed = "False")

\* the gate was passed at the last instant of the window
C17_Witness ==
    /\ mpc = "gated"
    /\ gateNow = C17_End - 1
    /\ wait_seconds = 0
    /\ proceed = "True"

\* C18: main() exits with code 0 exactly when the gate reported outside the
\* window, charge() then not being called and no API call made, or charge()
\* returned True; it exits with code 1 on every failure: a missing username,
\* password or station id (found before any API call), an offline charger,
\* three start commands left unconfirmed, or an unexpected error.
C18_ExitCodes ==
    /\ (mpc = "exited") = (exitCode # -1)
    /\ mpc = "exited" =>
          /\ (exitCode = 0) = (proceed = "False" \/ result = "True")
          /\ (exitCode = 1) = (proceed = "True" /\ result = "False")
          /\ proceed = "False" => (cpc = "idle" /\ apiCalls = 0)
          /\ (proceed = "True" /\ ~EnvComplete) => (exitCode = 1 /\ apiCalls = 0)
          /\ (polls = 1 /\ ~apiError /\ ~status.connected) => exitCode = 1
          /\ (/\ startLog = <<"timeout", "timeout", "timeout">>
              /\ ~apiError
              /\ status.plugged_in
              /\ status.charging_status # "CHARGING") => exitCode = 1
          /\ apiError => exitCode = 1

\* main() slept until the target and charge() found the charger offline
C18_Witness ==
    /\ mpc = "exited"
    /\ wait_seconds > 0
    /\ polls = 1
    /\ ~apiError
    /\ ~status.connected
    /\ exitCode = 1

\* a call of charge() that has begun runs on to its end
SpecChargeFair ==
    InitSpecCharge /\ [][NextCharge]_vars /\ WF_vars(NextCharge)

\* C36: in every run of charge() at most 3 start commands and at most 19
\* status queries (1 initial, 15 in the wait, 3 after timeouts) are issued,
\* and the call ends, returning True or False.
C36_BoundedRun ==
    /\ [](starts <= 3 /\ polls <= 1 + 15 + 3)
    /\ [](cpc = "done" => result \in {"True", "False"})
    /\ <>(cpc = "done")

\* a run that used up the wait and the three start commands: 19 status
\* queries, and False returned
C36_Witness ==
    /\ cpc = "done"
    /\ polls = 19
    /\ starts = 3
    /\ result = "False"

\* C37: a start command is issued only when the status fetched last (at the
\* initial check, in the scheduled-charge wait or after an ambiguous
\* timeout) reports the charger as connected.
C37_NoStartWhenOffline ==
    [][starts' = starts + 1 => status.connected]_vars

----------------------------------------------------------------------------
(* RateLimiter: specification and properties *)

NextLimiter ==
    \/ Tick /\ UNCHANGED <<actVars, chargeVars, mainVars, dalVars>>
    \/ \E t \in Threads : AcquireCall(t) /\ UNCHANGED <<actVars, chargeVars, mainVars, dalVars>>
    \/ \E t \in Threads : AcquireLock(t) /\ UNCHANGED <<actVars, chargeVars, mainVars, dalVars>>
    \/ \E t \in Threads : AcquireCheck(t) /\ UNCHANGED <<actVars, chargeVars, mainVars, dalVars>>
    \/ \E t \in Threads : AcquireWake(t) /\ UNCHANGED <<actVars, chargeVars, mainVars, dalVars>>

InitSpecLimiter == InitLimiter /\ InitChargeIdle /\ InitMainIdle /\ InitDALIdle /\ InitActivityIdle

SpecLimiter == InitSpecLimiter /\ [][NextLimiter]_vars

\* the time spanned by the acquire() calls made so far, in ticks
Span == IF firstCall = -1 THEN 0 ELSE mono - firstCall

\* C4: the calls that returned without sleeping number at most
\* capacity + T * (rate / per), T being the time spanned by the calls
\* (both sides are counted in allowance units).
C4_NoSleepConservation ==
    noSleepReturned * TicksPerToken <= rate * TicksPerToken + Span

\* more calls returned without sleeping than the capacity holds
C4_Witness ==
    /\ noSleepReturned > rate
    /\ returned > noSleepReturned

\* C5: the calls that returned, slept or not, number at most
\* capacity + T * (rate / per).
C5_ReturnConservation ==
    returned * TicksPerToken <= rate * TicksPerToken + Span

\* the threads inside the section of lines 25-37
InSection == {t \in Threads : tpc[t] \in {"locked", "sleeping"}}

\* line 27-31, as the thread that holds the lock computes it
Refilled == Refill(allowance, mono - last_check, rate)

\* C28: under any interleaving of acquire() callers, at most one of them is
\* inside the refill-check-consume section (the sleep included), the
\* allowance is never negative, and a caller that returns without sleeping is
\* the one inside the section and takes one whole unit out of the refilled
\* allowance.
C28_SerializedSection ==
    /\ [](Cardinality(InSection) <= 1 /\ InSection \subseteq {lockHolder})
    /\ [](allowance >= 0)
    /\ [][\A t \in Threads :
            (tpc[t] = "locked" /\ tpc'[t] = "idle") =>
                /\ InSection = {t}
                /\ Refilled >= TicksPerToken
                /\ allowance' = Refilled - TicksPerToken
                /\ noSleepReturned' = noSleepReturned + 1]_vars

\* one caller sleeps inside the section while another waits for the lock,
\* after a call that returned without sleeping
C28_Witness ==
    \E t, u \in Threads :
        /\ tpc[t] = "sleeping"
        /\ tpc[u] = "waiting"
        /\ noSleepReturned >= 1

\* C33: after an acquire() that slept has returned the allowance is 0, and an
\* acquire() that reaches the refill at the very instant of that return
\* sleeps itself: the time slept is not refilled a second time.
C33_SleepNotRecredited ==
    /\ [](sleptAt # -1 => allowance = 0)
    /\ [][\A t \in Threads :
            (tpc[t] = "locked" /\ tpc'[t] # "locked" /\ sleptAt = mono) =>
                tpc'[t] = "sleeping"]_vars

\* the capacity, in allowance units
Capacity == rate * TicksPerToken

\* C29: after construction and after every step of every acquire() call,
\* 0 <= allowance <= capacity.
C29_AllowanceInRange == 0 <= allowance /\ allowance <= Capacity

\* calls have returned with and without a sleep, and the allowance is used up
C29_Witness ==
    /\ noSleepReturned >= 1
    /\ returned > noSleepReturned
    /\ allowance = 0
    /\ \A t \in Threads : tpc[t] = "idle"

\* the scheduler runs every thread that can run, and the lock is fair: a
\* thread that waits for it while it is released again and again gets it
FairLimiter ==
    \A t \in Threads :
        /\ SF_vars(AcquireLock(t) /\ UNCHANGED <<actVars, chargeVars, mainVars, dalVars>>)
        /\ WF_vars(AcquireCheck(t) /\ UNCHANGED <<actVars, chargeVars, mainVars, dalVars>>)
        /\ WF_vars(AcquireWake(t) /\ UNCHANGED <<actVars, chargeVars, mainVars, dalVars>>)

SpecLimiterFair == InitSpecLimiter /\ [][NextLimiter]_vars /\ FairLimiter

\* C30: under a fair lock every acquire() call returns; a call that finds a
\* whole unit after the refill returns without sleeping, and a call that
\* finds less sleeps for a finite time, at most the time one unit takes to
\* refill.
C30_AcquireReturns ==
    /\ \A t \in Threads : (tpc[t] # "idle") ~> (tpc[t] = "idle")
    /\ [][\A t \in Threads :
            (tpc[t] = "locked" /\ tpc'[t] # "locked") =>
                IF Refilled >= TicksPerToken
                  THEN tpc'[t] = "idle" /\ mono' = mono
                  ELSE /\ tpc'[t] = "sleeping"
                       /\ wakeAt' - mono \in 1..TicksPerToken]_vars

\* every call of the run has returned, one of them at least after a sleep
C30_Witness ==
    /\ calls = MaxCalls
    /\ returned = calls
    /\ returned > noSleepReturned
    /\ \A t \in Threads : tpc[t] = "idle"

----------------------------------------------------------------------------
(* get_sessions: specification and properties *)

NextDAL ==
    \/ UtcTick /\ UNCHANGED <<actVars, chargeVars, mainVars, limiterVars>>
    \/ GetSessionsCall /\ UNCHANGED <<actVars, chargeVars, mainVars, limiterVars>>
    \/ Request /\ UNCHANGED <<actVars, chargeVars, mainVars, limiterVars>>
    \/ RateLimiterAcquire /\ UNCHANGED <<actVars, chargeVars, mainVars>>
    \/ Process /\ UNCHANGED <<actVars, chargeVars, mainVars, limiterVars>>
    \/ Save /\ UNCHANGED <<actVars, chargeVars, mainVars, limiterVars>>

InitSpecDAL == InitDAL /\ InitLimiterIdle /\ InitChargeIdle /\ InitMainIdle /\ InitActivityIdle

SpecDAL == InitSpecDAL /\ [][NextDAL]_vars

\* a call that has begun runs on: each step of get_sessions is taken

\* the call step of get_sessions with year and month given
IsGetSessions == gets' = gets + 1 /\ path' # "none"

\* the month file holds a readable record retrieved at or after the first
\* instant of the month that follows the target month
HoldsFinal(f) ==
    /\ f.kind = "record"
    /\ f.date_retrieved \notin {NoDate, BadDate}
    /\ f.date_retrieved >= NextMonthStart(Year, Month)

\* C3: get_sessions(year, month) returns the stored list without a network
\* request exactly when the month file holds a readable record whose
\* date_retrieved is at or after the first instant of the following month;
\* in every other case the fetch path runs.
C3_ServedIffFinal ==
    [][IsGetSessions =>
         /\ HoldsFinal(monthFile) =>
              /\ gpc' = "done"
              /\ path' = "cache"
              /\ gresult' = monthFile.sessions
              /\ requests' = requests
         /\ ~HoldsFinal(monthFile) =>
              /\ path' = "fetch"
              /\ gpc' \in {"request", "save"}
              /\ sessions' = <<>>]_vars

\* a first call served from a final record the run started with
C3_Witness ==
    /\ gets = 1
    /\ path = "cache"
    /\ gpc = "done"
    /\ gresult # <<>>
    /\ requests = 0

InCall == {"request", "acquire", "process", "save"}

\* the steps get_sessions has left at most: four for each iteration of the loop
\* not yet begun or in progress, and the save
CallRank ==
    CASE gpc = "request" -> 4 * (max_batches - i) + 3
      [] gpc = "acquire" -> 4 * (max_batches - i) + 2
      [] gpc = "process" -> 4 * (max_batches - i) + 1
      [] gpc = "save" -> 1
      [] OTHER -> 0

\* C6: a get_sessions call issues at most max_batches network requests,
\* whatever batches and cursors the API returns, and then terminates: every
\* step of the call lowers a rank that is never negative.
C6_BoundedRequests ==
    /\ [](callRequests <= max_batches)
    /\ [](gpc = "request" => callRequests = i /\ i < max_batches)
    /\ [](CallRank >= 0)
    /\ [][(gpc \in InCall /\ utc' = utc) => CallRank' < CallRank]_vars

\* a call stopped by max_batches while the API cycles back to the first cursor
C6_Witness ==
    /\ gpc = "done"
    /\ exitReason = "max_batches"
    /\ callRequests = MaxBatches
    /\ last_offset = Hint

AllInWindow(ss) == \A k \in DOMAIN ss : InWindow(ss[k], Year, Month)

\* C7: every record the fetch path accumulates, returns and persists has a
\* parsed start time inside [start_of_target, end_of_target).
C7_OnlyTargetMonth ==
    /\ AllInWindow(sessions)
    /\ (gpc = "done" /\ path = "fetch") =>
          /\ AllInWindow(gresult)
          /\ monthFile.kind = "record"
          /\ AllInWindow(monthFile.sessions)

\* a fetch that kept a record of the first batch and met an older second batch
C7_Witness ==
    /\ gpc = "done"
    /\ path = "fetch"
    /\ exitReason = "smart_stop"
    /\ callRequests = 2
    /\ gresult # <<>>

Occurrences(ss, d) == Cardinality({k \in DOMAIN ss : ss[k].id = d})

\* C8: when two batches fetched by one call hold a record of the target month
\* with the same session id, the returned and persisted list holds exactly
\* one record with that id.
C8_Dedup ==
    (gpc = "done" /\ path = "fetch") =>
        \A d \in Ids :
            idBatches[d] >= 2 =>
                /\ Occurrences(gresult, d) = 1
                /\ Occurrences(monthFile.sessions, d) = 1

\* C9: when the call that just returned persisted a record retrieved at or
\* after the end of the month, the next call for the month returns the same
\* list, issues no request, leaves the rate limiter alone and writes nothing.
C9_FreshnessIdempotence ==
    [][(/\ IsGetSessions
        /\ gpc = "done"
        /\ path = "fetch"
        /\ monthFile.kind = "record"
        /\ monthFile.date_retrieved >= NextMonthStart(Year, Month))
       => /\ gpc' = "done"
          /\ gresult' = gresult
          /\ requests' = requests
          /\ allowance' = allowance
          /\ last_check' = last_check
          /\ returned' = returned
          /\ monthFile' = monthFile
          /\ cache' = cache]_vars

\* a second call served from the record the first call fetched and persisted
C9_Witness ==
    /\ gets = 2
    /\ gpc = "done"
    /\ path = "cache"
    /\ requests >= 1
    /\ cache.present
    /\ gresult # <<>>

\* C19: every network request is sent after an acquire() made for it has
\* returned: the requests sent never outnumber the acquire() calls that returned.
C19_RequestsGated == requests <= returned

\* C20: a non-empty batch whose timestamps are all at or after end_of_target
\* does not end the loop: when its next cursor is neither terminal nor the
\* cursor of the request before, and fewer than max_batches requests have been
\* made, get_sessions keeps what it accumulated and requests the page of that
\* cursor.
C20_NewerBatchContinues ==
    [][(/\ gpc = "process"
        /\ tooNew'
        /\ ~(next_offset' = "last_page" \/ next_offset' = "" \/ next_offset' = last_offset)
        /\ callRequests < max_batches)
       => /\ gpc' = "request"
          /\ page_offset' = next_offset'
          /\ i' = i + 1
          /\ sessions' = sessions]_vars

\* a newer first batch, and the request for the page its cursor named
C20_Witness ==
    /\ tooNew
    /\ gpc = "request"
    /\ page_offset = "A"
    /\ callRequests = 1
    /\ i = 1

LoopExits == {"decode", "empty", "smart_stop", "cursor", "max_batches"}

\* C21: however the fetch loop ends (a response that cannot be decoded, an
\* empty batch, a smart stop, a terminal or repeated cursor, max_batches) the
\* call does not raise there and goes on to the save with the records
\* accumulated so far, the first three ends adding nothing to them; the save
\* writes them to the month file with the retrieval timestamp and returns them.
C21_ExitsPersist ==
    /\ [][(gpc = "process" /\ exitReason' # "none")
          => /\ exitReason' \in LoopExits
             /\ gpc' = "save"
             /\ exitReason' \in {"decode", "empty", "smart_stop"} => sessions' = sessions]_vars
    /\ [][(gpc = "process" /\ gpc' = "save") => exitReason' \in LoopExits]_vars
    /\ [][(gpc = "save" /\ gpc' = "done")
          => /\ monthFile' = [kind |-> "record", sessions |-> sessions,
                              date_retrieved |-> now]
             /\ gresult' = sessions]_vars

\* the second page could not be decoded and the match of the first was
\* persisted and returned
C21_Witness ==
    /\ gpc = "done"
    /\ exitReason = "decode"
    /\ callRequests = 2
    /\ gresult # <<>>
    /\ monthFile.kind = "record"
    /\ monthFile.sessions = gresult

\* C22: when the network request for a page fails, the call does not raise:
\* it leaves the loop for the save.
C22_NetworkFailureAborts ==
    [][(gpc = "request" /\ requests' = requests + 1)
       => gpc' \in {"acquire", "save"}]_vars

\* every session id seen in this call on a record that starts in the target
\* month is in the list collected
Complete(ss, seen) ==
    \A d \in Ids : seen[d] > 0 => \E k \in DOMAIN ss : ss[k].id = d

C35_CursorEndsPaging ==
    [][gpc = "process" =>
         /\ (next_offset' \in {"last_page", ""} \/ next_offset' = page_offset)
               => gpc' # "request"
         /\ gpc' = "request" => page_offset' # page_offset]_vars

\* C38: the retrieval timestamp written with a month record is the instant
\* read at the start of the call, which no page request of the fetch
\* precedes; so a fetch whose record will count as final sends every page
\* request at or after the end of the target month.
C38_StampBeforeFirstRequest ==
    /\ [][requests' = requests + 1 => now <= utc]_vars
    /\ [][(gpc = "save" /\ gpc' = "done")
            => monthFile'.kind = "record" /\ monthFile'.date_retrieved = now]_vars
    /\ [][(requests' = requests + 1 /\ IsFinal(Record(sessions, now), Year, Month))
            => utc >= EndOfTarget(Year, Month)]_vars

\* a fetch of two pages has stored its record, stamped earlier than the
\* wall clock at the time of the write
C38_Witness ==
    /\ gpc = "done"
    /\ path = "fetch"
    /\ callRequests = 2
    /\ monthFile = Record(sessions, now)
    /\ now < utc

\* C39: a fetch that ended because max_batches was reached or because a
\* response could not be decoded leaves no record that later calls serve as
\* final.
C39_EarlyExitNotFinal ==
    [][(gpc = "save" /\ exitReason \in {"max_batches", "decode"} /\ gpc' = "done")
        => ~IsFinal(monthFile', Year, Month)]_vars

----------------------------------------------------------------------------
(* get_session_activity: specification and properties *)

\* the calls are made one after the other, by any thread
NextActivity ==
    \/ \E t \in Callers :
          Sequential(t) /\ ActivityCall(t)
            /\ UNCHANGED <<chargeVars, mainVars, limiterVars, dalVars>>
    \/ \E t \in Callers :
          FindSessionFile(t) /\ UNCHANGED <<chargeVars, mainVars, limiterVars, dalVars>>
    \/ \E t \in Callers :
          LockDAL(t) /\ UNCHANGED <<chargeVars, mainVars, limiterVars, dalVars>>
    \/ \E t \in Callers :
          CheckCache(t) /\ UNCHANGED <<chargeVars, mainVars, limiterVars, dalVars>>
    \/ \E t \in Callers :
          PostActivity(t) /\ UNCHANGED <<chargeVars, mainVars, limiterVars, dalVars>>
    \/ \E t \in Callers :
          AcquireActivity(t) /\ UNCHANGED <<chargeVars, mainVars, dalVars>>
    \/ \E t \in Callers :
          StoreActivity(t) /\ UNCHANGED <<chargeVars, mainVars, limiterVars>>

InitSpecActivity ==
    InitActivity /\ InitDALStored /\ InitLimiterIdle /\ InitChargeIdle /\ InitMainIdle

SpecActivity == InitSpecActivity /\ [][NextActivity]_vars

\* the per-session file of the id thread t asks for can be read
ReadableFile(t) == sessionFiles[cache_key[t][1]] \in Details

\* C23: a get_session_activity call that finds a readable per-session file for
\* its id returns the content of that file, and issues no request, takes
\* nothing from the rate limiter, and neither changes nor saves the flat
\* cache, whatever the flat cache holds under the keys of that id.
C23_FileIsAuthoritative ==
    [][\A t \in Callers :
         (apc[t] = "file" /\ apc'[t] # "file" /\ ReadableFile(t)) =>
           /\ apc'[t] = "done"
           /\ areturn'[t] = sessionFiles[cache_key[t][1]]
           /\ fetches' = fetches
           /\ requests' = requests
           /\ UNCHANGED limiterVars
           /\ activityCache' = activityCache
           /\ saves' = saves
           /\ sessionFiles' = sessionFiles
           /\ monthFile' = monthFile]_vars

\* a call has returned the content of the file while the flat cache holds
\* something else under the key asked for, and nothing was requested
C23_Witness ==
    \E t \in Callers :
        /\ apc[t] = "done"
        /\ ReadableFile(t)
        /\ areturn[t] = sessionFiles[cache_key[t][1]]
        /\ activityCache[cache_key[t]] \in (Details \cup {"null"}) \ {areturn[t]}
        /\ \A k \in Keys : fetches[k] = 0
        /\ calls = 0

\* thread t is looking up a key whose last response from the network was r
LooksUp(t, r) == apc[t] \in {"file", "check"} /\ fetched[cache_key[t]] \in r

\* the call of thread t ends in this step, returning what the network gave for
\* its key
ReturnsFetched(t) == apc'[t] = "done" => areturn'[t] = fetched[cache_key[t]]

\* the call of thread t ends in this step, returning what the network gave for
\* its key or the content of a readable per-session file of its id
ReturnsFetchedOrFile(t) ==
    apc'[t] = "done" =>
        \/ areturn'[t] = fetched[cache_key[t]]
        \/ ReadableFile(t) /\ areturn'[t] = sessionFiles[cache_key[t][1]]

\* a response is stored for a key only if none was stored for it before
FetchedOnce ==
    \A t \in Callers :
        (apc[t] = "store" /\ apc'[t] # "store") => fetched[cache_key[t]] = "none"

\* C24 as stated: once a detail was obtained from the network for a key, every
\* later call with that key issues no request and returns that detail, and a
\* response is obtained at most once per key.
C24_SameDetail ==
    [][/\ \A t \in Callers :
            LooksUp(t, Details) => apc'[t] # "post" /\ ReturnsFetched(t)
       /\ FetchedOnce]_vars

\* C24, amended: once a detail was obtained from the network for a key, every
\* later call with that key issues no request and returns that detail, or the
\* content of a readable per-session file of the session id if there is one
\* when the call is made; a response is obtained at most once per key.
C24_SameDetailOrFile ==
    [][/\ \A t \in Callers :
            LooksUp(t, Details) => apc'[t] # "post" /\ ReturnsFetchedOrFile(t)
       /\ FetchedOnce]_vars

\* two calls with one key have returned the same detail, no per-session file
\* of the id can be read, and one request was issued for the key: the second
\* of the calls was served from the flat cache
C24_Witness ==
    \E t, u \in Callers :
        /\ t # u
        /\ apc[t] = "done" /\ apc[u] = "done"
        /\ cache_key[t] = cache_key[u]
        /\ ~ReadableFile(t)
        /\ fetched[cache_key[t]] \in Details
        /\ areturn[t] = fetched[cache_key[t]]
        /\ areturn[u] = fetched[cache_key[t]]
        /\ fetches[cache_key[t]] = 1

\* C25 as stated: a response that cannot be decoded is stored as None under
\* the key, and every later call with that key issues no request and returns
\* None.
C25_StickyMarker ==
    [][\A t \in Callers :
         /\ (apc[t] = "store" /\ apc'[t] # "store" /\ fetched'[cache_key[t]] = "null")
               => activityCache'[cache_key[t]] = "null"
         /\ LooksUp(t, {"null"}) => apc'[t] # "post" /\ ReturnsFetched(t)]_vars

\* C25, amended: a response that cannot be decoded is stored as None under the
\* key, and every later call with that key issues no request and returns None,
\* or the content of a readable per-session file of the session id if there is
\* one when the call is made.
C25_StickyMarkerOrFile ==
    [][\A t \in Callers :
         /\ (apc[t] = "store" /\ apc'[t] # "store" /\ fetched'[cache_key[t]] = "null")
               => activityCache'[cache_key[t]] = "null"
         /\ LooksUp(t, {"null"}) => apc'[t] # "post" /\ ReturnsFetchedOrFile(t)]_vars

\* two calls with one key have returned None after one request whose response
\* could not be decoded: the second of the calls was served by the marker
C25_Witness ==
    \E t, u \in Callers :
        /\ t # u
        /\ apc[t] = "done" /\ apc[u] = "done"
        /\ cache_key[t] = cache_key[u]
        /\ fetched[cache_key[t]] = "null"
        /\ activityCache[cache_key[t]] = "null"
        /\ areturn[t] = "null" /\ areturn[u] = "null"
        /\ fetches[cache_key[t]] = 1

\* C26: a failure to read or to write a cache file never raises to the caller
\* of get_sessions: a month file that cannot be read is treated as absent and
\* the fetch path runs, and a month file that cannot be written leaves the
\* call returning the sessions it collected.
C26_DiskFailuresContained ==
    [][/\ (gets' = gets + 1 /\ monthFile = UnreadableFile) => path' \in {"fetch", "none"}
       /\ (gpc = "save" /\ gpc' # "save") => gpc' = "done" /\ gresult' = sessions]_vars

\* C27: once the month file holds a final record, no call changes its list of
\* sessions or its retrieval timestamp.
C27_FinalRecordKept ==
    [][IsFinal(monthFile, Year, Month) => monthFile' = monthFile]_vars

\* C31: a get_sessions call made without the year or without the month raises
\* at once: no request is issued, the rate limiter is not used, and the month
\* file and the memory cache are as they were.
C31_MissingArgsFail ==
    [][(gets' = gets + 1 /\ given' # <<TRUE, TRUE>>) =>
         /\ gpc' = "raised"
         /\ path' = "none"
         /\ requests' = requests
         /\ UNCHANGED limiterVars
         /\ monthFile' = monthFile
         /\ cache' = cache]_vars

\* a call with the year and no month has raised after an earlier call had
\* fetched and stored the month
C31_Witness ==
    /\ gets = 2
    /\ gpc = "raised"
    /\ given = <<TRUE, FALSE>>
    /\ cache.present
    /\ monthFile.kind = "record"

----------------------------------------------------------------------------
(* concurrent callers of one DAL: specification and properties *)

\* any thread calls get_session_activity at any time, while get_sessions calls
\* with max_batches = 0 (the month is saved as fetched so far) are made too
NextConcurrent ==
    \/ \E t \in Callers :
          ActivityCall(t) /\ UNCHANGED <<chargeVars, mainVars, limiterVars, dalVars>>
    \/ \E t \in Callers :
          FindSessionFile(t) /\ UNCHANGED <<chargeVars, mainVars, limiterVars, dalVars>>
    \/ \E t \in Callers :
          LockDAL(t) /\ UNCHANGED <<chargeVars, mainVars, limiterVars, dalVars>>
    \/ \E t \in Callers :
          CheckCache(t) /\ UNCHANGED <<chargeVars, mainVars, limiterVars, dalVars>>
    \/ \E t \in Callers :
          PostActivity(t) /\ UNCHANGED <<chargeVars, mainVars, limiterVars, dalVars>>
    \/ \E t \in Callers :
          AcquireActivity(t) /\ UNCHANGED <<chargeVars, mainVars, dalVars>>
    \/ \E t \in Callers :
          StoreActivity(t) /\ UNCHANGED <<chargeVars, mainVars, limiterVars>>
    \/ /\ GetSessionsCall
       /\ max_batches' = 0
       /\ given' = <<TRUE, TRUE>>
       /\ UNCHANGED <<actVars, chargeVars, mainVars, limiterVars>>
    \/ Save /\ UNCHANGED <<actVars, chargeVars, mainVars, limiterVars>>

InitSpecConcurrent ==
    InitActivityIdle /\ InitDALStored /\ InitLimiterIdle /\ InitChargeIdle /\ InitMainIdle

SpecConcurrent == InitSpecConcurrent /\ [][NextConcurrent]_vars

\* the threads inside a with self.lock block of get_session_activity
InLockedBlock == {t \in Callers : apc[t] \in {"check", "store"}}

\* C32: under any interleaving of concurrent callers, self.cache is read and
\* written only by the holder of the lock of the DAL: a thread inside the
\* lookup of lines 81-85 or the store and save of lines 102-103 holds the
\* lock, no two threads are there together, and get_sessions updates the map
\* (line 391) only while no get_session_activity caller holds the lock.
C32_CacheUnderLock ==
    /\ [](InLockedBlock \subseteq {dalLock} /\ Cardinality(InLockedBlock) <= 1)
    /\ [][activityCache' # activityCache =>
            /\ dalLock # 0
            /\ apc[dalLock] = "store"
            /\ \A k \in Keys : k # cache_key[dalLock] => activityCache'[k] = activityCache[k]]_vars
    /\ [][cache' # cache => dalLock = 0 /\ InLockedBlock = {}]_vars

\* one thread is inside the store while the other waits for the lock, and
\* get_sessions has updated the map before
C32_Witness ==
    \E t, u \in Callers :
        /\ apc[t] = "store"
        /\ dalLock = t
        /\ apc[u] \in {"lock_check", "lock_store"}
        /\ cache.present

\* C40: among concurrent callers asking for the same key that is not cached,
\* a request is sent only while no other caller's request for that key is
\* under way or waiting to be stored.
C40_SingleRequestPerKey ==
    [][\A t \in Callers :
          (apc[t] = "post" /\ apc'[t] # "post")
            => \A u \in Callers \ {t} :
                  cache_key[u] = cache_key[t]
                    => apc[u] \notin {"acquire", "lock_store", "store"}]_vars

====
